---- MODULE Spec2Model ----
(***************************************************************************)
(* Model of awswrangler/emr.py: the EMR request builder                    *)
(* (_build_cluster_args) and the five thin operations of class EMR that    *)
(* forward to the remote EMR client.                                       *)
(*                                                                         *)
(* Encoding of Python values:                                              *)
(*   - a dict is a function from key strings to values; a key that was     *)
(*     never assigned is not in its DOMAIN;                                *)
(*   - a list is a sequence;                                               *)
(*   - an Optional[T] value is None (<<>>) or Some(v) (<<v>>); the request  *)
(*     document stores such a value as the input carries it;               *)
(*   - a command string is a sequence of one-character strings, so that    *)
(*     str.split can be computed character by character.                   *)
(***************************************************************************)
EXTENDS Integers, Sequences, FiniteSets, TLC

VARIABLES pars, cmd, args, remoteLog, result, firstArgs, nops

vars == <<pars, cmd, args, remoteLog, result, firstArgs, nops>>

(***************************************************************************)
(* Bounds of the model                                                     *)
(***************************************************************************)
MaxOps == 3
MaxCap == 1
MaxList == 2
MaxCmdLen == 3

(***************************************************************************)
(* Documented range of the spot provisioning timeout (minutes)             *)
(***************************************************************************)
MinTimeout == 5
MaxTimeout == 1440

(***************************************************************************)
(* Python values                                                           *)
(***************************************************************************)
None == <<>>
Some(v) == <<v>>

EmptyDict == [k \in {} |-> TRUE]

\* d[k] = v on a dict
SetItem(d, k, v) == (k :> v) @@ d

\* d["Instances"][k] = v
SetInstancesItem(d, k, v) == [d EXCEPT !["Instances"] = (k :> v) @@ @]

\* d["Configurations"].append(v)
AppendConfiguration(d, v) == [d EXCEPT !["Configurations"] = Append(@, v)]

\* d["Instances"]["InstanceFleets"].append(f)
AppendFleet(d, f) ==
    [d EXCEPT !["Instances"] = [@ EXCEPT !["InstanceFleets"] = Append(@, f)]]

\* truth value of an Optional[List]: None and [] are falsy
TruthyList(x) == x # None /\ Len(x[1]) > 0

\* all sequences over S of length at most n
SeqsUpTo(S, n) == UNION {[1..k -> S] : k \in 0..n}

(***************************************************************************)
(* Input domain: the keyword arguments of create_cluster                   *)
(***************************************************************************)
DefaultConfig ==
    [cluster_name |-> "wrangler_cluster",
     logging_s3_path |-> "s3://bucket/emr-logs/",
     emr_release |-> "emr-5.27.0",
     subnet_id |-> "subnet-1",
     emr_ec2_role |-> "EMR_EC2_DefaultRole",
     emr_role |-> "EMR_DefaultRole",
     instance_type_master |-> "m5.xlarge",
     instance_type_core |-> "m5.xlarge",
     instance_type_task |-> "m5.xlarge",
     instance_ebs_size_master |-> 50,
     instance_ebs_size_core |-> 50,
     instance_ebs_size_task |-> 50,
     instance_num_on_demand_master |-> 1,
     instance_num_on_demand_core |-> 1,
     instance_num_on_demand_task |-> 1,
     instance_num_spot_master |-> 0,
     instance_num_spot_core |-> 0,
     instance_num_spot_task |-> 0,
     spot_bid_percentage_of_on_demand_master |-> 100,
     spot_bid_percentage_of_on_demand_core |-> 100,
     spot_bid_percentage_of_on_demand_task |-> 100,
     spot_provisioning_timeout_master |-> 5,
     spot_provisioning_timeout_core |-> 5,
     spot_provisioning_timeout_task |-> 5,
     spot_timeout_to_on_demand_master |-> TRUE,
     spot_timeout_to_on_demand_core |-> TRUE,
     spot_timeout_to_on_demand_task |-> TRUE,
     python3 |-> TRUE,
     spark_glue_catalog |-> TRUE,
     hive_glue_catalog |-> TRUE,
     presto_glue_catalog |-> TRUE,
     bootstraps_paths |-> None,
     debugging |-> TRUE,
     applications |-> None,
     visible_to_all_users |-> TRUE,
     key_pair_name |-> None,
     security_group_master |-> None,
     security_groups_master_additional |-> None,
     security_group_slave |-> None,
     security_groups_slave_additional |-> None,
     security_group_service_access |-> None]

CapVals == -1..MaxCap
TimeoutVals == {MinTimeout - 1, MinTimeout, MaxTimeout, MaxTimeout + 1}
SpotTimeoutVals == {MinTimeout - 1, MaxTimeout}
OnDemandVals == {-1, 1}
BidVals == {100, 101}
EbsVals == {10, 20}
TypeVals == {"m5.xlarge", "c5.xlarge"}
OptStrVals(s) == {None, Some(""), Some(s)}
OptListVals(s) == {None, Some(<<>>), Some(<<s>>)}

\* configs that vary the spot inputs of the three roles
SpotConfigs(d) ==
    {o @@ d : o \in
        [instance_num_spot_master : CapVals,
         instance_num_spot_core : CapVals,
         instance_num_spot_task : CapVals,
         spot_provisioning_timeout_master : SpotTimeoutVals,
         spot_provisioning_timeout_core : SpotTimeoutVals,
         spot_provisioning_timeout_task : SpotTimeoutVals,
         spot_timeout_to_on_demand_master : BOOLEAN,
         spot_timeout_to_on_demand_core : BOOLEAN,
         spot_timeout_to_on_demand_task : BOOLEAN]}

\* configs that vary the remaining fleet inputs of the three roles
FleetConfigs(d) ==
    {o @@ d : o \in
        [instance_num_on_demand_master : OnDemandVals,
         instance_num_on_demand_core : OnDemandVals,
         instance_num_on_demand_task : OnDemandVals,
         spot_bid_percentage_of_on_demand_master : BidVals,
         spot_bid_percentage_of_on_demand_core : BidVals,
         spot_bid_percentage_of_on_demand_task : BidVals,
         instance_ebs_size_master : EbsVals,
         instance_ebs_size_core : EbsVals,
         instance_ebs_size_task : EbsVals,
         instance_type_master : TypeVals,
         instance_type_core : TypeVals,
         instance_type_task : TypeVals]}

\* configs that vary the toggles and lists of the optional top-level sections
SectionConfigs(d) ==
    {o @@ d : o \in
        [python3 : BOOLEAN,
         spark_glue_catalog : BOOLEAN,
         hive_glue_catalog : BOOLEAN,
         presto_glue_catalog : BOOLEAN,
         debugging : BOOLEAN,
         applications :
            {None} \cup {Some(l) : l \in SeqsUpTo({"Spark", "Hive"}, MaxList)},
         bootstraps_paths :
            {None} \cup {Some(l) : l \in SeqsUpTo({"s3://b/x.sh"}, MaxList)}]}

\* configs that vary the key pair, the security groups and the subnet
SecurityConfigs(d) ==
    {o @@ d : o \in
        [key_pair_name : OptStrVals("key"),
         security_group_master : OptStrVals("sg-m"),
         security_groups_master_additional : OptListVals("sg-ma"),
         security_group_slave : OptStrVals("sg-s"),
         security_groups_slave_additional : OptListVals("sg-sa"),
         security_group_service_access : OptStrVals("sg-x"),
         subnet_id : {"subnet-1", "subnet-2"}]}

\* configs with spot capacity in every role that vary the timeouts in and
\* out of the documented range
TimeoutConfigs(d) ==
    {o @@ d : o \in
        [instance_num_spot_master : {1},
         instance_num_spot_core : {1},
         instance_num_spot_task : {1},
         spot_provisioning_timeout_master : TimeoutVals,
         spot_provisioning_timeout_core : TimeoutVals,
         spot_provisioning_timeout_task : TimeoutVals]}

\* the configs offered to the builder: those that differ from d in the
\* fields of one of the groups above
Configs(d) ==
    SpotConfigs(d) \cup TimeoutConfigs(d) \cup FleetConfigs(d)
    \cup SectionConfigs(d) \cup SecurityConfigs(d)

(***************************************************************************)
(* _build_cluster_args                                                     *)
(***************************************************************************)
timeout_action_master(p) ==
    IF p.spot_timeout_to_on_demand_master THEN "SWITCH_TO_ON_DEMAND"
    ELSE "TERMINATE_CLUSTER"

fleet_master(p) ==
    LET fleet ==
            [Name |-> "MASTER",
             InstanceFleetType |-> "MASTER",
             TargetOnDemandCapacity |-> p.instance_num_on_demand_master,
             TargetSpotCapacity |-> p.instance_num_spot_master,
             InstanceTypeConfigs |-> <<
                [InstanceType |-> p.instance_type_master,
                 WeightedCapacity |-> 1,
                 BidPriceAsPercentageOfOnDemandPrice |->
                    p.spot_bid_percentage_of_on_demand_master,
                 EbsConfiguration |->
                    [EbsBlockDeviceConfigs |-> <<
                        [VolumeSpecification |->
                            [SizeInGB |-> p.instance_ebs_size_master,
                             VolumeType |-> "gp2"],
                         VolumesPerInstance |-> 1] >>,
                     EbsOptimized |-> TRUE]] >>]
    IN  IF p.instance_num_spot_master > 0
        THEN SetItem(fleet, "LaunchSpecifications",
                [SpotSpecification |->
                    [TimeoutDurationMinutes |-> p.spot_provisioning_timeout_master,
                     TimeoutAction |-> timeout_action_master(p)]])
        ELSE fleet

\* mutant: the CORE fleet takes the MASTER role's fallback flag
timeout_action_core_from_master(p) ==
    IF p.spot_timeout_to_on_demand_master THEN "SWITCH_TO_ON_DEMAND"
    ELSE "TERMINATE_CLUSTER"

timeout_action_core(p) ==
    IF p.spot_timeout_to_on_demand_core THEN "SWITCH_TO_ON_DEMAND"
    ELSE "TERMINATE_CLUSTER"

\* mutant: the CORE fleet takes the MASTER role's EBS size
fleet_core_master_ebs(p) ==
    LET fleet ==
            [Name |-> "CORE",
             InstanceFleetType |-> "CORE",
             TargetOnDemandCapacity |-> p.instance_num_on_demand_core,
             TargetSpotCapacity |-> p.instance_num_spot_core,
             InstanceTypeConfigs |-> <<
                [InstanceType |-> p.instance_type_core,
                 WeightedCapacity |-> 1,
                 BidPriceAsPercentageOfOnDemandPrice |->
                    p.spot_bid_percentage_of_on_demand_core,
                 EbsConfiguration |->
                    [EbsBlockDeviceConfigs |-> <<
                        [VolumeSpecification |->
                            [SizeInGB |-> p.instance_ebs_size_master,
                             VolumeType |-> "gp2"],
                         VolumesPerInstance |-> 1] >>,
                     EbsOptimized |-> TRUE]] >>]
    IN  IF p.instance_num_spot_core > 0
        THEN SetItem(fleet, "LaunchSpecifications",
                [SpotSpecification |->
                    [TimeoutDurationMinutes |-> p.spot_provisioning_timeout_core,
                     TimeoutAction |-> timeout_action_core(p)]])
        ELSE fleet

fleet_core(p) ==
    LET fleet ==
            [Name |-> "CORE",
             InstanceFleetType |-> "CORE",
             TargetOnDemandCapacity |-> p.instance_num_on_demand_core,
             TargetSpotCapacity |-> p.instance_num_spot_core,
             InstanceTypeConfigs |-> <<
                [InstanceType |-> p.instance_type_core,
                 WeightedCapacity |-> 1,
                 BidPriceAsPercentageOfOnDemandPrice |->
                    p.spot_bid_percentage_of_on_demand_core,
                 EbsConfiguration |->
                    [EbsBlockDeviceConfigs |-> <<
                        [VolumeSpecification |->
                            [SizeInGB |-> p.instance_ebs_size_core,
                             VolumeType |-> "gp2"],
                         VolumesPerInstance |-> 1] >>,
                     EbsOptimized |-> TRUE]] >>]
    IN  IF p.instance_num_spot_core > 0
        THEN SetItem(fleet, "LaunchSpecifications",
                [SpotSpecification |->
                    [TimeoutDurationMinutes |-> p.spot_provisioning_timeout_core,
                     TimeoutAction |-> timeout_action_core(p)]])
        ELSE fleet

\* mutant: the TASK fleet falls back with a step's failure action
timeout_action_task_step_action(p) ==
    IF p.spot_timeout_to_on_demand_task THEN "SWITCH_TO_ON_DEMAND"
    ELSE "TERMINATE_JOB_FLOW"

timeout_action_task(p) ==
    IF p.spot_timeout_to_on_demand_task THEN "SWITCH_TO_ON_DEMAND"
    ELSE "TERMINATE_CLUSTER"

fleet_task(p) ==
    LET fleet ==
            [Name |-> "TASK",
             InstanceFleetType |-> "TASK",
             TargetOnDemandCapacity |-> p.instance_num_on_demand_task,
             TargetSpotCapacity |-> p.instance_num_spot_task,
             InstanceTypeConfigs |-> <<
                [InstanceType |-> p.instance_type_task,
                 WeightedCapacity |-> 1,
                 BidPriceAsPercentageOfOnDemandPrice |->
                    p.spot_bid_percentage_of_on_demand_task,
                 EbsConfiguration |->
                    [EbsBlockDeviceConfigs |-> <<
                        [VolumeSpecification |->
                            [SizeInGB |-> p.instance_ebs_size_task,
                             VolumeType |-> "gp2"],
                         VolumesPerInstance |-> 1] >>,
                     EbsOptimized |-> TRUE]] >>]
    IN  IF p.instance_num_spot_task > 0
        THEN SetItem(fleet, "LaunchSpecifications",
                [SpotSpecification |->
                    [TimeoutDurationMinutes |-> p.spot_provisioning_timeout_task,
                     TimeoutAction |-> timeout_action_task(p)]])
        ELSE fleet

\* mutant: the fleet list is shared with the document built before
args_base_shared(p) ==
    [Name |-> p.cluster_name,
     LogUri |-> p.logging_s3_path,
     ReleaseLabel |-> p.emr_release,
     VisibleToAllUsers |-> p.visible_to_all_users,
     JobFlowRole |-> p.emr_ec2_role,
     ServiceRole |-> p.emr_role,
     Instances |->
        [KeepJobFlowAliveWhenNoSteps |-> TRUE,
         TerminationProtected |-> FALSE,
         Ec2SubnetId |-> p.subnet_id,
         InstanceFleets |->
            IF args = EmptyDict THEN <<>> ELSE args.Instances.InstanceFleets]]

\* the initial dict literal
args_base(p) ==
    [Name |-> p.cluster_name,
     LogUri |-> p.logging_s3_path,
     ReleaseLabel |-> p.emr_release,
     VisibleToAllUsers |-> p.visible_to_all_users,
     JobFlowRole |-> p.emr_ec2_role,
     ServiceRole |-> p.emr_role,
     Instances |->
        [KeepJobFlowAliveWhenNoSteps |-> TRUE,
         TerminationProtected |-> FALSE,
         Ec2SubnetId |-> p.subnet_id,
         InstanceFleets |-> <<>>]]

\* mutant: the key pair is tested for truth, not for None
with_key_pair_truthy(p, a) ==
    IF p.key_pair_name # None /\ p.key_pair_name[1] # ""
    THEN SetInstancesItem(a, "Ec2KeyName", p.key_pair_name)
    ELSE a

\* EC2 key pair
with_key_pair(p, a) ==
    IF p.key_pair_name # None
    THEN SetInstancesItem(a, "Ec2KeyName", p.key_pair_name)
    ELSE a

\* Security groups
with_security_groups(p, a) ==
    LET a1 == IF p.security_group_master # None
              THEN SetInstancesItem(a, "EmrManagedMasterSecurityGroup",
                                    p.security_group_master)
              ELSE a
        a2 == IF p.security_groups_master_additional # None
              THEN SetInstancesItem(a1, "AdditionalMasterSecurityGroups",
                                    p.security_groups_master_additional)
              ELSE a1
        a3 == IF p.security_group_slave # None
              THEN SetInstancesItem(a2, "EmrManagedSlaveSecurityGroup",
                                    p.security_group_slave)
              ELSE a2
        a4 == IF p.security_groups_slave_additional # None
              THEN SetInstancesItem(a3, "AdditionalSlaveSecurityGroups",
                                    p.security_groups_slave_additional)
              ELSE a3
    IN  IF p.security_group_service_access # None
        THEN SetInstancesItem(a4, "ServiceAccessSecurityGroup",
                              p.security_group_service_access)
        ELSE a4

conf_python3 ==
    [Classification |-> "spark-env",
     Properties |-> EmptyDict,
     Configurations |-> <<
        [Classification |-> "export",
         Properties |-> [PYSPARK_PYTHON |-> "/usr/bin/python3"],
         Configurations |-> <<>>] >>]

conf_spark_glue_catalog ==
    [Classification |-> "spark-hive-site",
     Properties |->
        ("hive.metastore.client.factory.class" :>
            "com.amazonaws.glue.catalog.metastore.AWSGlueDataCatalogHiveClientFactory"),
     Configurations |-> <<>>]

conf_hive_glue_catalog ==
    [Classification |-> "hive-site",
     Properties |->
        ("hive.metastore.client.factory.class" :>
            "com.amazonaws.glue.catalog.metastore.AWSGlueDataCatalogHiveClientFactory"),
     Configurations |-> <<>>]

conf_presto_glue_catalog ==
    [Classification |-> "presto-connector-hive",
     Properties |-> ("hive.metastore.glue.datacatalog.enabled" :> "true"),
     Configurations |-> <<>>]

\* mutant: the hive entry is appended before the spark entry
with_configurations_hive_first(p, a) ==
    IF p.python3 \/ p.spark_glue_catalog \/ p.hive_glue_catalog
       \/ p.presto_glue_catalog
    THEN LET c0 == SetItem(a, "Configurations", <<>>)
             c1 == IF p.python3
                   THEN AppendConfiguration(c0, conf_python3) ELSE c0
             c2 == IF p.hive_glue_catalog
                   THEN AppendConfiguration(c1, conf_hive_glue_catalog) ELSE c1
             c3 == IF p.spark_glue_catalog
                   THEN AppendConfiguration(c2, conf_spark_glue_catalog) ELSE c2
         IN  IF p.presto_glue_catalog
             THEN AppendConfiguration(c3, conf_presto_glue_catalog) ELSE c3
    ELSE a

\* Configurations
with_configurations(p, a) ==
    IF p.python3 \/ p.spark_glue_catalog \/ p.hive_glue_catalog
       \/ p.presto_glue_catalog
    THEN LET c0 == SetItem(a, "Configurations", <<>>)
             c1 == IF p.python3
                   THEN AppendConfiguration(c0, conf_python3) ELSE c0
             c2 == IF p.spark_glue_catalog
                   THEN AppendConfiguration(c1, conf_spark_glue_catalog) ELSE c1
             c3 == IF p.hive_glue_catalog
                   THEN AppendConfiguration(c2, conf_hive_glue_catalog) ELSE c2
         IN  IF p.presto_glue_catalog
             THEN AppendConfiguration(c3, conf_presto_glue_catalog) ELSE c3
    ELSE a

\* mutant: the applications are tested for None, not for truth
with_applications_not_none(p, a) ==
    IF p.applications # None
    THEN SetItem(a, "Applications",
            [i \in 1..Len(p.applications[1]) |-> [Name |-> p.applications[1][i]]])
    ELSE a

\* Applications
with_applications(p, a) ==
    IF TruthyList(p.applications)
    THEN SetItem(a, "Applications",
            [i \in 1..Len(p.applications[1]) |-> [Name |-> p.applications[1][i]]])
    ELSE a

\* Bootstraps
with_bootstraps(p, a) ==
    IF TruthyList(p.bootstraps_paths)
    THEN SetItem(a, "BootstrapActions",
            [i \in 1..Len(p.bootstraps_paths[1]) |->
                [Name |-> p.bootstraps_paths[1][i],
                 ScriptBootstrapAction |-> [Path |-> p.bootstraps_paths[1][i]]]])
    ELSE a

\* Debugging
with_debugging(p, a) ==
    IF p.debugging
    THEN SetItem(a, "Steps", <<
            [Name |-> "Setup Hadoop Debugging",
             ActionOnFailure |-> "TERMINATE_CLUSTER",
             HadoopJarStep |->
                [Jar |-> "command-runner.jar",
                 Args |-> <<"state-pusher-script">>]] >>)
    ELSE a

\* mutant: the CORE fleet is appended before the MASTER fleet
with_fleets_core_first(p, a) ==
    AppendFleet(AppendFleet(AppendFleet(a, fleet_core(p)), fleet_master(p)),
                fleet_task(p))

\* the three appends to args["Instances"]["InstanceFleets"]
with_fleets(p, a) ==
    AppendFleet(AppendFleet(AppendFleet(a, fleet_master(p)), fleet_core(p)),
                fleet_task(p))

\* mutant: the timeouts are forced into the documented range before use
ClampTimeout(t) ==
    IF t < MinTimeout THEN MinTimeout ELSE IF t > MaxTimeout THEN MaxTimeout ELSE t

_build_cluster_args_clamped(p) ==
    with_fleets(
        [p EXCEPT !.spot_provisioning_timeout_master = ClampTimeout(@),
                  !.spot_provisioning_timeout_core = ClampTimeout(@),
                  !.spot_provisioning_timeout_task = ClampTimeout(@)],
        with_debugging(p,
            with_bootstraps(p,
                with_applications(p,
                    with_configurations(p,
                        with_security_groups(p,
                            with_key_pair(p, args_base(p))))))))

_build_cluster_args(p) ==
    with_fleets(p,
        with_debugging(p,
            with_bootstraps(p,
                with_applications(p,
                    with_configurations(p,
                        with_security_groups(p,
                            with_key_pair(p, args_base(p))))))))

(***************************************************************************)
(* The remote EMR client (boto3): one request, then a response or an error *)
(***************************************************************************)
ClusterIds == {"j-1", "j-2"}
StepIds == {"s-1", "s-2"}
ClusterStates == {"STARTING", "TERMINATED"}
StepStates == {"PENDING", "COMPLETED"}
Errors == {"ClientError"}

Call(api, request) == [api |-> api, request |-> request]

Ok(body) == [ok |-> TRUE, body |-> body]
Failed(e) == [ok |-> FALSE, error |-> e]

\* what the remote service can answer to a call of api
Responses(api) ==
    {Failed(e) : e \in Errors} \cup
    CASE api = "run_job_flow" ->
            {Ok([JobFlowId |-> id, ClusterArn |-> "arn"]) : id \in ClusterIds}
      [] api = "describe_cluster" ->
            {Ok([Cluster |-> [Name |-> "c", Status |-> [State |-> st]]]) :
                st \in ClusterStates}
      [] api = "terminate_job_flows" ->
            {Ok([ResponseMetadata |-> [HTTPStatusCode |-> 200]])}
      [] api = "add_job_flow_steps" ->
            {Ok([StepIds |-> <<id>>]) : id \in StepIds}
      [] api = "describe_step" ->
            {Ok([Step |-> [Name |-> "n", Status |-> [State |-> st]]]) :
                st \in StepStates}

Returned(v) == [status |-> "returned", value |-> v]
Raised(e) == [status |-> "raised", error |-> e]

(***************************************************************************)
(* The operations of class EMR.  Each yields the remote calls it issues    *)
(* and its outcome, given the response resp of the remote service.         *)
(***************************************************************************)
\* mutant: a failed run_job_flow is tried a second time
create_cluster_retry(p, resp) ==
    LET a == _build_cluster_args(p)
    IN  [args |-> a,
         calls |-> IF resp.ok THEN <<Call("run_job_flow", a)>>
                   ELSE <<Call("run_job_flow", a), Call("run_job_flow", a)>>,
         outcome |-> IF resp.ok THEN Returned(resp.body.JobFlowId)
                     ELSE Raised(resp.error)]

create_cluster(p, resp) ==
    LET a == _build_cluster_args(p)
    IN  [args |-> a,
         calls |-> <<Call("run_job_flow", a)>>,
         outcome |-> IF resp.ok THEN Returned(resp.body.JobFlowId)
                     ELSE Raised(resp.error)]

get_cluster_state(cluster_id, resp) ==
    [calls |-> <<Call("describe_cluster", [ClusterId |-> cluster_id])>>,
     outcome |-> IF resp.ok THEN Returned(resp.body.Cluster.Status.State)
                 ELSE Raised(resp.error)]

terminate_cluster(cluster_id, resp) ==
    [calls |-> <<Call("terminate_job_flows", [JobFlowIds |-> <<cluster_id>>])>>,
     outcome |-> IF resp.ok THEN Returned(None) ELSE Raised(resp.error)]

\* str.find: the first position of character sep in s, 0 if there is none
find(s, sep) ==
    IF \E i \in 1..Len(s) : s[i] = sep
    THEN CHOOSE i \in 1..Len(s) : s[i] = sep /\ \A j \in 1..(i - 1) : s[j] # sep
    ELSE 0

\* str.split(sep) with an explicit separator: every occurrence of sep cuts
\* the string, and the pieces between two cuts are kept even when empty
RECURSIVE split(_, _)
split(s, sep) ==
    IF find(s, sep) = 0 THEN <<s>>
    ELSE <<SubSeq(s, 1, find(s, sep) - 1)>>
         \o split(SubSeq(s, find(s, sep) + 1, Len(s)), sep)

\* session.region_name
region_name == "us-east-1"

submit_step(cluster_id, name, c, action_on_failure, resp) ==
    LET region == region_name
        step ==
            [Name |-> name,
             ActionOnFailure |-> action_on_failure,
             HadoopJarStep |->
                [Jar |-> <<"s3://", region,
                           ".elasticmapreduce/libs/script-runner/script-runner.jar">>,
                 Args |-> split(c, " ")]]
    IN  [calls |-> <<Call("add_job_flow_steps",
                          [JobFlowId |-> cluster_id, Steps |-> <<step>>])>>,
         outcome |-> IF resp.ok THEN Returned(resp.body.StepIds[1])
                     ELSE Raised(resp.error)]

get_step_state(cluster_id, step_id, resp) ==
    [calls |-> <<Call("describe_step",
                      [ClusterId |-> cluster_id, StepId |-> step_id])>>,
     outcome |-> IF resp.ok THEN Returned(resp.body.Step.Status.State)
                 ELSE Raised(resp.error)]

(***************************************************************************)
(* State                                                                   *)
(*   pars       the config the caller passes to create_cluster             *)
(*   cmd        the command string the caller passes to submit_step        *)
(*   args       the document most recently built                           *)
(*   remoteLog  the calls the remote client has received, in order         *)
(*   result     the last operation: its name, inputs, the response it was  *)
(*              given, the number of remote calls it issued, its outcome   *)
(*   firstArgs  the first document built (history)                         *)
(*   nops       the number of operations invoked                           *)
(***************************************************************************)
NoDoc == EmptyDict
NoResult == [op |-> "none"]

ExampleCmd == <<"a", " ", "b">>
Alphabet == {"a", "b", " ", "\t"}
\* the non-empty command strings
Cmds == SeqsUpTo(Alphabet, MaxCmdLen) \ {<<>>}

\* the configs of the runs that interleave the operations
OpsConfigs ==
    {DefaultConfig,
     [DefaultConfig EXCEPT !.instance_num_spot_core = 1,
                           !.debugging = FALSE,
                           !.key_pair_name = Some("key")]}

\* the cluster and step the caller asks about
CallerClusterIds == {"j-1"}
CallerStepIds == {"s-1"}

\* the bookkeeping common to the operations: r is what the operation yields
Invoke(op, input, resp, r) ==
    /\ nops < MaxOps
    /\ nops' = nops + 1
    /\ remoteLog' = remoteLog \o r.calls
    /\ result' = [op |-> op,
                  input |-> input,
                  response |-> resp,
                  ncalls |-> Len(remoteLog') - Len(remoteLog),
                  outcome |-> r.outcome]
    /\ UNCHANGED <<pars, cmd>>

\* a direct call of the static method, as a test makes it
BuildClusterArgs ==
    /\ args' = _build_cluster_args(pars)
    /\ firstArgs' = IF firstArgs = NoDoc THEN args' ELSE firstArgs
    /\ Invoke("_build_cluster_args", pars, None,
              [calls |-> <<>>, outcome |-> Returned(args')])

CreateCluster ==
    \E resp \in Responses("run_job_flow") :
        /\ args' = create_cluster(pars, resp).args
        /\ firstArgs' = IF firstArgs = NoDoc THEN args' ELSE firstArgs
        /\ Invoke("create_cluster", pars, resp, create_cluster(pars, resp))

GetClusterState ==
    \E cluster_id \in CallerClusterIds, resp \in Responses("describe_cluster") :
        /\ Invoke("get_cluster_state", <<cluster_id>>, resp,
                  get_cluster_state(cluster_id, resp))
        /\ UNCHANGED <<args, firstArgs>>

TerminateCluster ==
    \E cluster_id \in CallerClusterIds, resp \in Responses("terminate_job_flows") :
        /\ Invoke("terminate_cluster", <<cluster_id>>, resp,
                  terminate_cluster(cluster_id, resp))
        /\ UNCHANGED <<args, firstArgs>>

SubmitStep ==
    \E cluster_id \in CallerClusterIds, resp \in Responses("add_job_flow_steps") :
        /\ Invoke("submit_step", <<cluster_id, "n", cmd>>, resp,
                  submit_step(cluster_id, "n", cmd, "CONTINUE", resp))
        /\ UNCHANGED <<args, firstArgs>>

GetStepState ==
    \E cluster_id \in CallerClusterIds, step_id \in CallerStepIds,
       resp \in Responses("describe_step") :
        /\ Invoke("get_step_state", <<cluster_id, step_id>>, resp,
                  get_step_state(cluster_id, step_id, resp))
        /\ UNCHANGED <<args, firstArgs>>

InitState ==
    /\ args = NoDoc
    /\ remoteLog = <<>>
    /\ result = NoResult
    /\ firstArgs = NoDoc
    /\ nops = 0

\* the builder applied to every config of the input domain
Init ==
    /\ pars \in Configs(DefaultConfig)
    /\ cmd = ExampleCmd
    /\ InitState

Next == BuildClusterArgs

Spec == Init /\ [][Next]_vars

\* submit_step applied to every command string
InitStep ==
    /\ pars = DefaultConfig
    /\ cmd \in Cmds
    /\ InitState

NextStep == SubmitStep

SpecStep == InitStep /\ [][NextStep]_vars

\* any sequence of the operations
InitOps ==
    /\ pars \in OpsConfigs
    /\ cmd = ExampleCmd
    /\ InitState

NextOps ==
    \/ BuildClusterArgs
    \/ CreateCluster
    \/ GetClusterState
    \/ TerminateCluster
    \/ SubmitStep
    \/ GetStepState

SpecOps == InitOps /\ [][NextOps]_vars

(***************************************************************************)
(* Properties of the document built by _build_cluster_args                 *)
(***************************************************************************)
Built == args # NoDoc

RoleNames == <<"MASTER", "CORE", "TASK">>

Fleets == args.Instances.InstanceFleets

\* the positions of the fleet entries of role r
FleetIdx(r) == {i \in DOMAIN Fleets : Fleets[i].InstanceFleetType = r}

SpotOf(r) ==
    CASE r = "MASTER" -> pars.instance_num_spot_master
      [] r = "CORE" -> pars.instance_num_spot_core
      [] r = "TASK" -> pars.instance_num_spot_task

OnDemandOf(r) ==
    CASE r = "MASTER" -> pars.instance_num_on_demand_master
      [] r = "CORE" -> pars.instance_num_on_demand_core
      [] r = "TASK" -> pars.instance_num_on_demand_task

BidOf(r) ==
    CASE r = "MASTER" -> pars.spot_bid_percentage_of_on_demand_master
      [] r = "CORE" -> pars.spot_bid_percentage_of_on_demand_core
      [] r = "TASK" -> pars.spot_bid_percentage_of_on_demand_task

TimeoutOf(r) ==
    CASE r = "MASTER" -> pars.spot_provisioning_timeout_master
      [] r = "CORE" -> pars.spot_provisioning_timeout_core
      [] r = "TASK" -> pars.spot_provisioning_timeout_task

ToOnDemandOf(r) ==
    CASE r = "MASTER" -> pars.spot_timeout_to_on_demand_master
      [] r = "CORE" -> pars.spot_timeout_to_on_demand_core
      [] r = "TASK" -> pars.spot_timeout_to_on_demand_task

HasLaunchSpec(f) == "LaunchSpecifications" \in DOMAIN f

SpotSpec(f) == f.LaunchSpecifications.SpotSpecification

\* C1: for every role, the role's fleet entry has no LaunchSpecifications key
\* when the role's instance_num_spot is 0, and has one when it is > 0, whose
\* SpotSpecification carries the role's spot_provisioning_timeout and the
\* action SWITCH_TO_ON_DEMAND if the role's spot_timeout_to_on_demand is
\* true, TERMINATE_CLUSTER otherwise.
C1_SpotLaunchSpecification ==
    Built =>
        \A k \in 1..3 :
            LET r == RoleNames[k] IN
            /\ FleetIdx(r) # {}
            /\ \A i \in FleetIdx(r) :
                /\ SpotOf(r) = 0 => ~HasLaunchSpec(Fleets[i])
                /\ SpotOf(r) > 0 =>
                    /\ HasLaunchSpec(Fleets[i])
                    /\ SpotSpec(Fleets[i]).TimeoutDurationMinutes = TimeoutOf(r)
                    /\ SpotSpec(Fleets[i]).TimeoutAction =
                        IF ToOnDemandOf(r) THEN "SWITCH_TO_ON_DEMAND"
                        ELSE "TERMINATE_CLUSTER"

C1_Witness ==
    /\ Built
    /\ pars.instance_num_spot_master = 0
    /\ ~HasLaunchSpec(Fleets[1])
    /\ pars.instance_num_spot_core > 0
    /\ pars.spot_timeout_to_on_demand_master
    /\ ~pars.spot_timeout_to_on_demand_core
    /\ HasLaunchSpec(Fleets[2])
    /\ SpotSpec(Fleets[2]).TimeoutAction = "TERMINATE_CLUSTER"
    /\ pars.instance_num_spot_task > 0
    /\ pars.spot_timeout_to_on_demand_task
    /\ pars.spot_provisioning_timeout_task = MaxTimeout
    /\ pars.spot_provisioning_timeout_core = MinTimeout - 1
    /\ HasLaunchSpec(Fleets[3])
    /\ SpotSpec(Fleets[3]).TimeoutAction = "SWITCH_TO_ON_DEMAND"
    /\ SpotSpec(Fleets[3]).TimeoutDurationMinutes = MaxTimeout

\* truth value of an Optional[str]: None and "" are falsy
TruthyStr(x) == x # None /\ x[1] # ""

AnyToggle ==
    pars.python3 \/ pars.spark_glue_catalog \/ pars.hive_glue_catalog
    \/ pars.presto_glue_catalog

\* the four optional top-level sections: present iff the input is truthy,
\* and then a non-empty list
TopSectionsIffTruthy ==
    /\ "Configurations" \in DOMAIN args <=> AnyToggle
    /\ "Applications" \in DOMAIN args <=> TruthyList(pars.applications)
    /\ "BootstrapActions" \in DOMAIN args <=> TruthyList(pars.bootstraps_paths)
    /\ "Steps" \in DOMAIN args <=> pars.debugging
    /\ \A k \in {"Configurations", "Applications", "BootstrapActions", "Steps"} :
        k \in DOMAIN args => args[k] # <<>>

InstStrKeys ==
    {<<"Ec2KeyName", pars.key_pair_name>>,
     <<"EmrManagedMasterSecurityGroup", pars.security_group_master>>,
     <<"EmrManagedSlaveSecurityGroup", pars.security_group_slave>>,
     <<"ServiceAccessSecurityGroup", pars.security_group_service_access>>}

InstListKeys ==
    {<<"AdditionalMasterSecurityGroups", pars.security_groups_master_additional>>,
     <<"AdditionalSlaveSecurityGroups", pars.security_groups_slave_additional>>}

\* C2 as stated: every optional section, the security-group fields and the
\* key pair included, is present iff its input is truthy/non-empty, and is
\* never present holding an empty list, an empty string or null.
C2_Original ==
    Built =>
        /\ TopSectionsIffTruthy
        /\ \A e \in InstStrKeys :
            /\ e[1] \in DOMAIN args.Instances <=> TruthyStr(e[2])
            /\ e[1] \in DOMAIN args.Instances =>
                args.Instances[e[1]] \notin {None, Some("")}
        /\ \A e \in InstListKeys :
            /\ e[1] \in DOMAIN args.Instances <=> TruthyList(e[2])
            /\ e[1] \in DOMAIN args.Instances =>
                args.Instances[e[1]] \notin {None, Some(<<>>)}

\* C2 (amended): Configurations, Applications, BootstrapActions and the
\* debugging Steps entry are present iff their input is truthy, and never
\* present as an empty list; Ec2KeyName and the five security-group fields
\* are present iff their input is not None, so they are never null, but
\* hold an empty string or an empty list when the input is one.
C2_OptionalSections ==
    Built =>
        /\ TopSectionsIffTruthy
        /\ \A e \in InstStrKeys \cup InstListKeys :
            /\ e[1] \in DOMAIN args.Instances <=> e[2] # None
            /\ e[1] \in DOMAIN args.Instances => args.Instances[e[1]] # None

C2_Witness ==
    /\ Built
    /\ pars.key_pair_name = Some("")
    /\ "Ec2KeyName" \in DOMAIN args.Instances
    /\ args.Instances.Ec2KeyName = Some("")
    /\ pars.security_groups_slave_additional = Some(<<>>)
    /\ args.Instances.AdditionalSlaveSecurityGroups = Some(<<>>)
    /\ pars.security_group_master = None
    /\ "EmrManagedMasterSecurityGroup" \notin DOMAIN args.Instances
    /\ pars.applications = None
    /\ "Applications" \notin DOMAIN args
    /\ "Configurations" \in DOMAIN args
    /\ "Steps" \in DOMAIN args

\* C3: the Instances block has KeepJobFlowAliveWhenNoSteps = true,
\* TerminationProtected = false, Ec2SubnetId = the input subnet_id, and
\* exactly three fleets whose types are, in order, MASTER, CORE, TASK.
C3_InstancesBlock ==
    Built =>
        /\ args.Instances.KeepJobFlowAliveWhenNoSteps = TRUE
        /\ args.Instances.TerminationProtected = FALSE
        /\ args.Instances.Ec2SubnetId = pars.subnet_id
        /\ Len(Fleets) = 3
        /\ \A i \in 1..3 : Fleets[i].InstanceFleetType = RoleNames[i]

C3_Witness ==
    /\ Built
    /\ pars.subnet_id = "subnet-2"
    /\ args.Instances.Ec2SubnetId = "subnet-2"
    /\ Len(Fleets) = 3
    /\ Fleets[1].InstanceFleetType = "MASTER"
    /\ Fleets[3].InstanceFleetType = "TASK"

Toggles ==
    <<pars.python3, pars.spark_glue_catalog, pars.hive_glue_catalog,
      pars.presto_glue_catalog>>

ToggleClassification ==
    <<"spark-env", "spark-hive-site", "hive-site", "presto-connector-hive">>

\* the position of classification c in the toggle order (0 if it is none)
ToggleRank(c) ==
    IF \E k \in 1..4 : ToggleClassification[k] = c
    THEN CHOOSE k \in 1..4 : ToggleClassification[k] = c
    ELSE 0

\* C4: Configurations is absent when the four toggles are all false;
\* otherwise it holds exactly one entry per true toggle, with the toggle's
\* classification, in the order python3, spark, hive, presto.
C4_Configurations ==
    Built =>
        IF ~AnyToggle THEN "Configurations" \notin DOMAIN args
        ELSE /\ "Configurations" \in DOMAIN args
             /\ LET c == args.Configurations IN
                /\ Len(c) = Cardinality({k \in 1..4 : Toggles[k]})
                /\ \A k \in 1..4 :
                    Toggles[k] <=>
                        \E i \in 1..Len(c) :
                            c[i].Classification = ToggleClassification[k]
                /\ \A i, j \in 1..Len(c) :
                    i < j => ToggleRank(c[i].Classification)
                             < ToggleRank(c[j].Classification)

C4_Witness ==
    /\ Built
    /\ ~pars.python3
    /\ pars.spark_glue_catalog
    /\ pars.hive_glue_catalog
    /\ ~pars.presto_glue_catalog
    /\ Len(args.Configurations) = 2
    /\ args.Configurations[1].Classification = "spark-hive-site"
    /\ args.Configurations[2].Classification = "hive-site"

FallbackActions == {"SWITCH_TO_ON_DEMAND", "TERMINATE_CLUSTER"}

\* C7 as stated: for each role with spot capacity > 0 the spot-timeout
\* specification has a duration within 5..1440 and a fallback action in
\* {SWITCH_TO_ON_DEMAND, TERMINATE_CLUSTER}; for spot capacity 0 there is no
\* spot-timeout block.
C7_Original ==
    Built =>
        \A k \in 1..3 :
            \A i \in FleetIdx(RoleNames[k]) :
                /\ SpotOf(RoleNames[k]) > 0 =>
                    /\ HasLaunchSpec(Fleets[i])
                    /\ SpotSpec(Fleets[i]).TimeoutDurationMinutes
                        \in MinTimeout..MaxTimeout
                    /\ SpotSpec(Fleets[i]).TimeoutAction \in FallbackActions
                /\ SpotOf(RoleNames[k]) = 0 => ~HasLaunchSpec(Fleets[i])

\* C7 (amended): for each role with spot capacity > 0 the spot-timeout
\* specification has a fallback action in {SWITCH_TO_ON_DEMAND,
\* TERMINATE_CLUSTER} and a duration that is within 5..1440 whenever the
\* role's spot_provisioning_timeout input is; for spot capacity 0 there is
\* no spot-timeout block.
C7_SpotTimeoutBlock ==
    Built =>
        \A k \in 1..3 :
            /\ FleetIdx(RoleNames[k]) # {}
            /\ \A i \in FleetIdx(RoleNames[k]) :
                /\ SpotOf(RoleNames[k]) > 0 =>
                    /\ HasLaunchSpec(Fleets[i])
                    /\ TimeoutOf(RoleNames[k]) \in MinTimeout..MaxTimeout =>
                        SpotSpec(Fleets[i]).TimeoutDurationMinutes
                            \in MinTimeout..MaxTimeout
                    /\ SpotSpec(Fleets[i]).TimeoutAction \in FallbackActions
                /\ SpotOf(RoleNames[k]) = 0 => ~HasLaunchSpec(Fleets[i])

C7_Witness ==
    /\ Built
    /\ pars.instance_num_spot_master > 0
    /\ pars.spot_provisioning_timeout_master = MaxTimeout
    /\ SpotSpec(Fleets[1]).TimeoutDurationMinutes = MaxTimeout
    /\ pars.instance_num_spot_core = 0
    /\ ~HasLaunchSpec(Fleets[2])
    /\ pars.instance_num_spot_task > 0
    /\ ~pars.spot_timeout_to_on_demand_task
    /\ SpotSpec(Fleets[3]).TimeoutAction = "TERMINATE_CLUSTER"

\* C8: Ec2KeyName and the five security-group fields are keys of the
\* Instances block exactly when the corresponding input is not None, and a
\* present key holds that input unchanged.
C8_KeyPairAndSecurityGroups ==
    Built =>
        \A e \in InstStrKeys \cup InstListKeys :
            /\ e[1] \in DOMAIN args.Instances <=> e[2] # None
            /\ e[1] \in DOMAIN args.Instances => args.Instances[e[1]] = e[2]

C8_Witness ==
    /\ Built
    /\ pars.key_pair_name = Some("")
    /\ args.Instances.Ec2KeyName = Some("")
    /\ pars.security_group_master = Some("sg-m")
    /\ args.Instances.EmrManagedMasterSecurityGroup = Some("sg-m")
    /\ pars.security_groups_master_additional = Some(<<"sg-ma">>)
    /\ args.Instances.AdditionalMasterSecurityGroups = Some(<<"sg-ma">>)
    /\ pars.security_group_slave = None
    /\ "EmrManagedSlaveSecurityGroup" \notin DOMAIN args.Instances

\* C9: _build_cluster_args validates nothing and raises nothing: for every
\* config, out-of-range timeouts, bid percentages and negative capacities
\* included, it returns a document that carries those values unchanged.
C9_NoLocalValidation ==
    result.op = "_build_cluster_args" =>
        /\ result.outcome.status = "returned"
        /\ result.outcome.value = args
        /\ \A k \in 1..3 :
            /\ FleetIdx(RoleNames[k]) # {}
            /\ \A i \in FleetIdx(RoleNames[k]) :
                /\ Fleets[i].TargetSpotCapacity = SpotOf(RoleNames[k])
                /\ Fleets[i].TargetOnDemandCapacity = OnDemandOf(RoleNames[k])
                /\ Fleets[i].InstanceTypeConfigs[1]
                        .BidPriceAsPercentageOfOnDemandPrice = BidOf(RoleNames[k])
                /\ SpotOf(RoleNames[k]) > 0 =>
                    SpotSpec(Fleets[i]).TimeoutDurationMinutes
                        = TimeoutOf(RoleNames[k])

C9_Witness ==
    /\ result.op = "_build_cluster_args"
    /\ result.outcome.status = "returned"
    /\ pars.instance_num_spot_master > 0
    /\ pars.spot_provisioning_timeout_master = MinTimeout - 1
    /\ SpotSpec(Fleets[1]).TimeoutDurationMinutes = MinTimeout - 1
    /\ pars.instance_num_spot_core > 0
    /\ pars.spot_provisioning_timeout_core = MaxTimeout
    /\ SpotSpec(Fleets[2]).TimeoutDurationMinutes = MaxTimeout
    /\ pars.instance_num_spot_task > 0
    /\ pars.spot_provisioning_timeout_task = MaxTimeout + 1
    /\ SpotSpec(Fleets[3]).TimeoutDurationMinutes = MaxTimeout + 1

(***************************************************************************)
(* Properties of submit_step                                               *)
(***************************************************************************)
Whitespace == {" ", "\t"}

\* the length of the longest prefix of s without whitespace
WordLen(s) ==
    IF \E i \in 1..Len(s) : s[i] \in Whitespace
    THEN (CHOOSE i \in 1..Len(s) :
            s[i] \in Whitespace /\ \A j \in 1..(i - 1) : s[j] \notin Whitespace) - 1
    ELSE Len(s)

\* the non-whitespace tokens of s, in order
RECURSIVE WhitespaceTokens(_)
WhitespaceTokens(s) ==
    IF s = <<>> THEN <<>>
    ELSE IF Head(s) \in Whitespace THEN WhitespaceTokens(Tail(s))
    ELSE <<SubSeq(s, 1, WordLen(s))>>
         \o WhitespaceTokens(SubSeq(s, WordLen(s) + 1, Len(s)))

LastCall == remoteLog[Len(remoteLog)]

\* C5: for every command string cmd, the Args of the single step that
\* submit_step sends to the remote service are the non-whitespace tokens
\* of cmd.
C5_Original ==
    result.op = "submit_step" =>
        /\ LastCall.api = "add_job_flow_steps"
        /\ Len(LastCall.request.Steps) = 1
        /\ LastCall.request.Steps[1].HadoopJarStep.Args = WhitespaceTokens(cmd)

PublicOps ==
    {"create_cluster", "get_cluster_state", "terminate_cluster", "submit_step",
     "get_step_state"}

ApiOf(op) ==
    CASE op = "create_cluster" -> "run_job_flow"
      [] op = "get_cluster_state" -> "describe_cluster"
      [] op = "terminate_cluster" -> "terminate_job_flows"
      [] op = "submit_step" -> "add_job_flow_steps"
      [] op = "get_step_state" -> "describe_step"

\* the response field the operation returns
ResponseField(op, body) ==
    CASE op = "create_cluster" -> body.JobFlowId
      [] op = "get_cluster_state" -> body.Cluster.Status.State
      [] op = "terminate_cluster" -> None
      [] op = "submit_step" -> body.StepIds[1]
      [] op = "get_step_state" -> body.Step.Status.State

\* C10: in any sequence of the public operations, each operation issues
\* exactly one call to the remote service, the one of its own API; a failure
\* of that call reaches the caller unchanged with no further call, and a
\* success makes the operation return its fixed response field.
C10_OneCallNoRetry ==
    result.op \in PublicOps =>
        /\ result.ncalls = 1
        /\ Len(remoteLog) <= nops
        /\ LastCall.api = ApiOf(result.op)
        /\ result.response.ok =>
            result.outcome = Returned(ResponseField(result.op, result.response.body))
        /\ ~result.response.ok =>
            result.outcome = Raised(result.response.error)

C10_Witness ==
    /\ nops = 3
    /\ Len(remoteLog) = 3
    /\ result.op = "create_cluster"
    /\ ~result.response.ok
    /\ result.ncalls = 1
    /\ result.outcome = Raised("ClientError")
    /\ remoteLog[1].api # "run_job_flow"

(***************************************************************************)
(* Properties of the fleet entries, role by role                           *)
(***************************************************************************)
\* the names of the inputs that belong to role r
RoleInputs(r) ==
    CASE r = "MASTER" ->
            [type |-> "instance_type_master",
             ebs |-> "instance_ebs_size_master",
             on_demand |-> "instance_num_on_demand_master",
             spot |-> "instance_num_spot_master",
             bid |-> "spot_bid_percentage_of_on_demand_master",
             timeout |-> "spot_provisioning_timeout_master",
             to_on_demand |-> "spot_timeout_to_on_demand_master"]
      [] r = "CORE" ->
            [type |-> "instance_type_core",
             ebs |-> "instance_ebs_size_core",
             on_demand |-> "instance_num_on_demand_core",
             spot |-> "instance_num_spot_core",
             bid |-> "spot_bid_percentage_of_on_demand_core",
             timeout |-> "spot_provisioning_timeout_core",
             to_on_demand |-> "spot_timeout_to_on_demand_core"]
      [] r = "TASK" ->
            [type |-> "instance_type_task",
             ebs |-> "instance_ebs_size_task",
             on_demand |-> "instance_num_on_demand_task",
             spot |-> "instance_num_spot_task",
             bid |-> "spot_bid_percentage_of_on_demand_task",
             timeout |-> "spot_provisioning_timeout_task",
             to_on_demand |-> "spot_timeout_to_on_demand_task"]

\* the values an input of each kind is changed to
InputVals ==
    [type |-> TypeVals,
     ebs |-> EbsVals,
     on_demand |-> OnDemandVals,
     spot |-> CapVals,
     bid |-> BidVals,
     timeout |-> TimeoutVals,
     to_on_demand |-> BOOLEAN]

\* the fleet entries of role r in document a
FleetsOfRole(a, r) ==
    {a.Instances.InstanceFleets[i] : i \in
        {j \in DOMAIN a.Instances.InstanceFleets :
            a.Instances.InstanceFleets[j].InstanceFleetType = r}}

\* the configs that differ from pars in one input of a role other than r
OtherRoleChanges(r) ==
    UNION {UNION {{[pars EXCEPT ![RoleInputs(RoleNames[k])[kind]] = v] :
                        v \in InputVals[kind]} :
                  kind \in DOMAIN InputVals} :
           k \in {j \in 1..3 : RoleNames[j] # r}}

\* C11: for every role R the fleet entry of R follows one rule, from R's
\* own inputs: Name and InstanceFleetType are R, the two target capacities
\* are R's instance_num_on_demand and instance_num_spot, and
\* InstanceTypeConfigs is exactly one entry with WeightedCapacity 1, R's
\* instance type, R's bid percentage and an EBS configuration of one gp2
\* block device of R's EBS size with VolumesPerInstance 1 and EbsOptimized
\* true; a change of an input of another role leaves R's entry as it is.
C11_FleetPerRole ==
    Built =>
        \A k \in 1..3 :
            LET r == RoleNames[k]
                F == RoleInputs(r)
            IN  /\ FleetIdx(r) # {}
                /\ \A i \in FleetIdx(r) :
                    /\ Fleets[i].Name = r
                    /\ Fleets[i].InstanceFleetType = r
                    /\ Fleets[i].TargetOnDemandCapacity = pars[F.on_demand]
                    /\ Fleets[i].TargetSpotCapacity = pars[F.spot]
                    /\ Fleets[i].InstanceTypeConfigs = <<
                        [InstanceType |-> pars[F.type],
                         WeightedCapacity |-> 1,
                         BidPriceAsPercentageOfOnDemandPrice |-> pars[F.bid],
                         EbsConfiguration |->
                            [EbsBlockDeviceConfigs |-> <<
                                [VolumeSpecification |->
                                    [SizeInGB |-> pars[F.ebs],
                                     VolumeType |-> "gp2"],
                                 VolumesPerInstance |-> 1] >>,
                             EbsOptimized |-> TRUE]] >>
                    /\ \A q \in OtherRoleChanges(r) :
                        FleetsOfRole(_build_cluster_args(q), r) = {Fleets[i]}

C11_Witness ==
    /\ Built
    /\ pars.instance_type_master = "c5.xlarge"
    /\ pars.instance_type_core = "m5.xlarge"
    /\ pars.instance_ebs_size_master = 10
    /\ pars.instance_ebs_size_core = 20
    /\ pars.spot_bid_percentage_of_on_demand_core = 101
    /\ pars.spot_bid_percentage_of_on_demand_task = 100
    /\ pars.instance_num_on_demand_core = -1
    /\ pars.instance_num_on_demand_task = 1
    /\ Fleets[1].InstanceTypeConfigs[1].InstanceType = "c5.xlarge"
    /\ Fleets[2].InstanceTypeConfigs[1].InstanceType = "m5.xlarge"
    /\ Fleets[2].InstanceTypeConfigs[1].EbsConfiguration
            .EbsBlockDeviceConfigs[1].VolumeSpecification.SizeInGB = 20
    /\ Fleets[2].InstanceTypeConfigs[1].BidPriceAsPercentageOfOnDemandPrice = 101
    /\ Fleets[2].TargetOnDemandCapacity = -1
    /\ Fleets[3].TargetOnDemandCapacity = 1
    /\ Len(Fleets[2].InstanceTypeConfigs) = 1

====
